---- MODULE Spec2Model ----
(***************************************************************************)
(* Slide lifecycle engine of crt-hud: the collector cache                  *)
(* (backend/collectors/base.py), the slide-type descriptors                *)
(* (backend/slides/*.py), the display loop (app.py, _run_display_loop)     *)
(* and the status/preview readers (backend/api/routes.py).                 *)
(***************************************************************************)
EXTENDS Integers, Sequences, FiniteSets, TLC

(***************************************************************************)
(* Python values.  An Optional[dict] is a record: None, or a dict given as *)
(* its set of <<key, value>> items (so {} is a dict with no items).        *)
(***************************************************************************)
None == [isNone |-> TRUE, items |-> {}]

Dict(items) == [isNone |-> FALSE, items |-> items]

EmptyDict == Dict({})

\* bool(x) of an Optional[dict]: None and {} are falsy.
Truthy(v) == ~v.isNone /\ v.items # {}

\* d.get(key, default) on a dict.
DictGet(d, key, default) ==
    IF \E p \in d.items : p[1] = key
    THEN (CHOOSE p \in d.items : p[1] = key)[2]
    ELSE default

(***************************************************************************)
(* IEEE-754 doubles, as the display loop uses them.  The loop only ever    *)
(* holds sums and differences of 0.1, so a double x is kept as the pair    *)
(* [n, e] with x = n/10 + e * 2^-56 / 5 exactly: n is the number of ticks  *)
(* and e the accumulated rounding error in units of 2^-56/5.  In these     *)
(* units the double nearest 0.1 is 2^55 + 2, so 0.1 is [n |-> 1, e |-> 2]. *)
(***************************************************************************)
FZero == [n |-> 0, e |-> 0]

\* The literal 0.1 (sleep_interval): 0x3FB999999999999A.
FTenth == [n |-> 1, e |-> 2]

\* An int number of seconds, as a double (exact).
FInt(s) == [n |-> 10 * s, e |-> 0]

\* 2^m mod 5.
Pow2Mod5(m) == <<1, 2, 4, 3>>[(m % 4) + 1]

RECURSIVE Pow2(_)
Pow2(j) == IF j = 0 THEN 1 ELSE 2 * Pow2(j - 1)

\* The binade of the exact value [n, e], n >= 1, as j = k + 4 where
\* 2^k <= value < 2^(k+1).  2^k is 10 * 2^k tenths, i.e. 16 n >= 10 * 2^j.
RECURSIVE BinadeFrom(_, _, _)
BinadeFrom(n, e, j) ==
    LET next == 10 * Pow2(j + 1)
    IN  IF 16 * n > next \/ (16 * n = next /\ e >= 0)
        THEN BinadeFrom(n, e, j + 1)
        ELSE j

Binade(n, e) == BinadeFrom(n, e, 0)

\* (n * 2^55 + e) mod (5 * 2^j): the distance of the exact value above the
\* grid of doubles whose spacing (ulp) is 2^(j-56), i.e. 5 * 2^j units.
GridRem(n, e, j) ==
    (Pow2(j) * ((n * Pow2Mod5(55 - j)) % 5) + e) % (5 * Pow2(j))

\* Round the exact value [n, e] to the nearest double, ties to even.
FRound(n, e) ==
    IF n = 0 THEN [n |-> 0, e |-> e]
    ELSE LET j    == Binade(n, e)
             ulp  == 5 * Pow2(j)
             r    == GridRem(n, e, j)
             odd  == GridRem(n, e, j + 1) # r
             down == [n |-> n, e |-> e - r]
             up   == [n |-> n, e |-> e + (ulp - r)]
         IN  IF 2 * r < ulp THEN down
             ELSE IF 2 * r > ulp THEN up
             ELSE IF odd THEN up ELSE down

\* x + y and x - y in double arithmetic.
FAdd(x, y) == FRound(x.n + y.n, x.e + y.e)

FSub(x, y) == FRound(x.n - y.n, x.e - y.e)

\* x >= y and x < y: the errors are far below one tick.
FGe(x, y) == x.n > y.n \/ (x.n = y.n /\ x.e >= y.e)

FLt(x, y) == ~FGe(x, y)

\* x % 1.0 (exact in IEEE arithmetic) for x >= 0.
FMod1(x) ==
    IF x.n % 10 = 0 /\ x.e < 0
    THEN [n |-> 10, e |-> x.e]
    ELSE [n |-> x.n % 10, e |-> x.e]


(***************************************************************************)
(* BaseCollector (backend/collectors/base.py).  Times are wall-clock       *)
(* readings in tenths of a second.                                         *)
(***************************************************************************)
\* self._cache_ttl, in seconds.
CacheTTL == 5

\* A cache_time of None.
NoTime == -1

\* A last_error of None, and the str(e) of a fetch exception.
NoError == "None"

FetchError == "fetch failed"

\* BaseCollector.__init__: empty cache, no error.
NewCollector(enabled) ==
    [enabled |-> enabled, cache |-> None, cache_time |-> NoTime,
     last_error |-> NoError]

\* The outcome of one _fetch_data(): it raises, or returns a dict or None.
FetchRaises == [raises |-> TRUE, value |-> None]

FetchReturns(v) == [raises |-> FALSE, value |-> v]

\* get_data, the cache check: a cached dict younger than the TTL.
CacheFresh(c, t) ==
    /\ ~c.cache.isNone
    /\ c.cache_time # NoTime
    /\ t - c.cache_time < 10 * CacheTTL

\* get_data, after _fetch_data(): the collector's new state.  A returned
\* value (None included) replaces the cache; an exception only records
\* the error.
StoreFetch(c, t, out) ==
    IF out.raises
    THEN [c EXCEPT !.last_error = FetchError]
    ELSE [c EXCEPT !.cache = out.value,
                   !.cache_time = t,
                   !.last_error = IF out.value.isNone THEN @ ELSE NoError]

\* get_data, after _fetch_data(): the value returned to the caller.  On an
\* exception: "self._cache.copy() if self._cache else None".
FetchResult(c, out) ==
    IF out.raises
    THEN IF Truthy(c.cache) THEN c.cache ELSE None
    ELSE out.value

\* A clear_cache that leaves the cache as it is.
ClearCacheKeeps(c) == c

\* clear_cache.
ClearCache(c) == [c EXCEPT !.cache = None, !.cache_time = NoTime]

\* One whole get_data() at time t by a caller that owns the collector alone,
\* the fetch (if any) ending with outcome out: the new collector state, the
\* value returned and whether _fetch_data was invoked.
GetData(c, t, out) ==
    IF ~c.enabled THEN [c |-> c, ret |-> None, fetched |-> FALSE]
    ELSE IF CacheFresh(c, t) THEN [c |-> c, ret |-> c.cache, fetched |-> FALSE]
    ELSE [c |-> StoreFetch(c, t, out), ret |-> FetchResult(c, out),
          fetched |-> TRUE]

(***************************************************************************)
(* A collector shared by the display loop thread and a status-query        *)
(* thread: any sequence of get_data() and clear_cache() calls, with any    *)
(* fetch outcome and any time between and during the calls.                *)
(***************************************************************************)
\* The threads that may call one collector.
Threads == {"display", "status"}

\* Latest wall-clock reading explored, in tenths of a second.
MaxClock == 70

\* The payloads a fetch may return.
Payloads == {EmptyDict, Dict({<<"x", 1>>}), Dict({<<"x", 2>>})}

FetchOutcomes ==
    {FetchRaises} \cup {FetchReturns(v) : v \in Payloads \cup {None}}

\* How far the clock may move in one step, in tenths of a second.
AdvanceSteps == {10, 40}

VARIABLES
    now,          \* wall clock (datetime.now(), time.time()), tenths of a second
    coll,         \* the shared collector object
    collLock,     \* coll._lock: its holder, or "free"
    tpc,          \* per thread: "idle", or "fetching" inside get_data
    tstart,       \* per thread: when its get_data in progress took the lock
    lastCall,     \* history: the get_data call that completed last
    lastFetch,    \* history: the latest completed call that invoked _fetch_data
    cleared       \* history: clear_cache() was called since lastFetch

collVars == <<coll, collLock, tpc, tstart, lastCall, lastFetch, cleared>>

\* The state of the display loop and of the reader of current_slide.
VARIABLES
    running,        \* self.running
    config,         \* the slide list in slides.json
    pc,             \* where the display loop is
    slides,         \* the sorted list of the pass
    idx,            \* position of the for loop in slides
    collector,      \* the loop's collector / temp_collector (exists, obj)
    data,           \* the loop's data / temp_data
    image,          \* the loop's image
    elapsed,        \* hold loop: elapsed
    last_refresh,   \* hold loop: last_refresh
    current_slide,  \* self.current_slide: a reference, or NoneRef
    heap,           \* the snapshot dicts that references point to
    sinkFrame,      \* the frame last handed to the output sink
    rpc,            \* the reader: "idle", the field it reads next, "returned"
    rref,           \* the reader's local "current"
    rview,          \* the fields the reader has read
    visited,        \* history: ids of the slides the pass has visited
    passEnd,        \* history: how the latest pass ended
    lastSlide,      \* history: the slide visited last and what was decided
    renders,        \* history: render calls for the slide visited last
    frames,         \* history: sink calls for the slide visited last
    fetches,        \* history: fetches for the slide visited last
    refreshLog,     \* history: the tick of each refresh of the hold
    faults,         \* history: fetch, render and sink failures so far
    passes          \* history: passes started

loopVars ==
    <<running, config, pc, slides, idx, collector, data, image, elapsed,
      last_refresh, current_slide, heap, sinkFrame, visited, passEnd,
      lastSlide, renders, frames, fetches, refreshLog, faults, passes>>

readerVars == <<rpc, rref, rview>>

\* A caller of get_data() that keeps the dict it was given, and the identity
\* of the dict objects involved.
VARIABLES
    cacheObj,       \* the object self._cache is, or NoObj
    retObj,         \* the object the latest get_data() returned, or NoObj
    retVal          \* the content of that object

callerVars == <<cacheObj, retObj, retVal>>

\* slides.json, its temporary file, and the threads that save and load it.
VARIABLES
    names,          \* directory: the inode of slides.json and of slides.json.tmp
    inodes,         \* the content of each inode
    fpc,            \* per thread: where it is in save_config / load_config
    fd,             \* per thread: the inode of the file it has open
    loaded          \* what the load_config calls that are over returned

fileVars == <<names, inodes, fpc, fd, loaded>>

vars == <<now, collVars, loopVars, readerVars, callerVars, fileVars>>

NoCall ==
    [valid |-> FALSE, start |-> 0, fetched |-> FALSE, raised |-> FALSE,
     ret |-> None, cacheBefore |-> None, cacheTimeBefore |-> NoTime,
     errAfter |-> NoError,
     prevFetch |-> [valid |-> FALSE, start |-> 0, raised |-> FALSE,
                    value |-> None],
     clearedSince |-> FALSE]

\* The record of a call that took the lock at start, in collector state c,
\* and returned ret.
CallRecord(start, c, fetched, out, ret, errAfter) ==
    [valid |-> TRUE, start |-> start, fetched |-> fetched,
     raised |-> fetched /\ out.raises, ret |-> ret, cacheBefore |-> c.cache,
     cacheTimeBefore |-> c.cache_time, errAfter |-> errAfter,
     prevFetch |-> lastFetch, clearedSince |-> cleared]

InitCollector ==
    /\ coll \in {NewCollector(en) : en \in BOOLEAN}
    /\ collLock = "free"
    /\ tpc = [th \in Threads |-> "idle"]
    /\ tstart = [th \in Threads |-> 0]
    /\ lastCall = NoCall
    /\ lastFetch = NoCall.prevFetch
    /\ cleared = FALSE

\* get_data on a disabled collector: returns None before taking the lock.
GetDataDisabled(th) ==
    /\ tpc[th] = "idle"
    /\ ~coll.enabled
    /\ lastCall' = CallRecord(now, coll, FALSE, FetchRaises, None,
                              coll.last_error)
    /\ UNCHANGED <<now, coll, collLock, tpc, tstart, lastFetch, cleared>>
    /\ UNCHANGED <<loopVars, readerVars, callerVars, fileVars>>

\* get_data, cache hit: take the lock, return a copy of the cache, release.
GetDataHit(th) ==
    /\ tpc[th] = "idle"
    /\ coll.enabled
    /\ collLock = "free"
    /\ CacheFresh(coll, now)
    /\ lastCall' = CallRecord(now, coll, FALSE, FetchRaises, coll.cache,
                              coll.last_error)
    /\ UNCHANGED <<now, coll, collLock, tpc, tstart, lastFetch, cleared>>
    /\ UNCHANGED <<loopVars, readerVars, callerVars, fileVars>>

\* A cache miss that starts _fetch_data without waiting for the lock.
GetDataFetchUnlocked(th) ==
    /\ tpc[th] = "idle"
    /\ coll.enabled
    /\ ~CacheFresh(coll, now)
    /\ collLock' = th
    /\ tpc' = [tpc EXCEPT ![th] = "fetching"]
    /\ tstart' = [tstart EXCEPT ![th] = now]
    /\ UNCHANGED <<now, coll, lastCall, lastFetch, cleared>>
    /\ UNCHANGED <<loopVars, readerVars, callerVars, fileVars>>

\* get_data, cache miss: take the lock and start _fetch_data.
GetDataFetch(th) ==
    /\ tpc[th] = "idle"
    /\ coll.enabled
    /\ collLock = "free"
    /\ ~CacheFresh(coll, now)
    /\ collLock' = th
    /\ tpc' = [tpc EXCEPT ![th] = "fetching"]
    /\ tstart' = [tstart EXCEPT ![th] = now]
    /\ UNCHANGED <<now, coll, lastCall, lastFetch, cleared>>
    /\ UNCHANGED <<loopVars, readerVars, callerVars, fileVars>>

\* get_data, _fetch_data is over: store, return, release the lock.
GetDataReturn(th) ==
    /\ tpc[th] = "fetching"
    /\ \E out \in FetchOutcomes :
         LET c2 == StoreFetch(coll, now, out)
         IN  /\ coll' = c2
             /\ lastCall' = CallRecord(tstart[th], coll, TRUE, out,
                                       FetchResult(coll, out), c2.last_error)
             /\ lastFetch' = [valid |-> TRUE, start |-> tstart[th],
                              raised |-> out.raises, value |-> out.value]
    /\ cleared' = FALSE
    /\ collLock' = "free"
    /\ tpc' = [tpc EXCEPT ![th] = "idle"]
    /\ tstart' = [tstart EXCEPT ![th] = 0]
    /\ UNCHANGED now
    /\ UNCHANGED <<loopVars, readerVars, callerVars, fileVars>>

\* clear_cache, under the lock.
CallClearCache(th) ==
    /\ tpc[th] = "idle"
    /\ collLock = "free"
    /\ coll' = ClearCache(coll)
    /\ cleared' = TRUE
    /\ UNCHANGED <<now, collLock, tpc, tstart, lastCall, lastFetch>>
    /\ UNCHANGED <<loopVars, readerVars, callerVars, fileVars>>

\* What a request to wttr.in can end with: an exception that is not caught,
\* None (a request or parse error), the current conditions.
WeatherOutcomes ==
    {FetchRaises, FetchReturns(None), FetchReturns(Dict({<<"temp_c", 20>>}))}

\* WeatherCollector.get_data_for_city(city) with a city, the read the
\* display loop makes for a weather slide that has one: it goes to
\* _fetch_weather_data at once, without the enabled check, the lock or the
\* cache.
GetDataForCity(th) ==
    /\ tpc[th] = "idle"
    /\ tpc' = [tpc EXCEPT ![th] = "city"]
    /\ tstart' = [tstart EXCEPT ![th] = now]
    /\ UNCHANGED <<now, coll, collLock, lastCall, lastFetch, cleared>>
    /\ UNCHANGED <<loopVars, readerVars, callerVars, fileVars>>

\* get_data_for_city, the request is over: the answer (None for a request
\* or parse error) is returned and nothing is stored; any other exception
\* reaches the caller.
GetDataForCityReturn(th) ==
    /\ tpc[th] = "city"
    /\ \E out \in WeatherOutcomes :
         /\ lastCall' = CallRecord(tstart[th], coll, TRUE, out, out.value,
                                   coll.last_error)
         /\ lastFetch' = [valid |-> TRUE, start |-> tstart[th],
                          raised |-> out.raises, value |-> out.value]
    /\ cleared' = FALSE
    /\ tpc' = [tpc EXCEPT ![th] = "idle"]
    /\ tstart' = [tstart EXCEPT ![th] = 0]
    /\ UNCHANGED <<now, coll, collLock>>
    /\ UNCHANGED <<loopVars, readerVars, callerVars, fileVars>>

\* Time passes.
Advance ==
    /\ \E d \in AdvanceSteps : now + d <= MaxClock /\ now' = now + d
    /\ UNCHANGED <<collVars, loopVars, readerVars, callerVars, fileVars>>

NextCollector ==
    \/ \E th \in Threads : GetDataDisabled(th)
    \/ \E th \in Threads : GetDataHit(th)
    \/ \E th \in Threads : GetDataFetch(th)
    \/ \E th \in Threads : GetDataReturn(th)
    \/ \E th \in Threads : CallClearCache(th)
    \/ Advance

(***************************************************************************)
(* Slide configuration (config.py, slides.json).  A slide is a dict; the   *)
(* keys the display loop reads are the fields of a record.  A key that     *)
(* may be missing is a sequence: <<>> when missing, <<v>> when present;    *)
(* a missing string is "", a missing dict is None.                         *)
(***************************************************************************)
Slide(id, type, order, duration, refresh, conditional, svc) ==
    [id |-> id, type |-> type, title |-> type, order |-> order,
     duration |-> duration, refresh_duration |-> refresh,
     conditional |-> conditional, service_config |-> svc,
     api_config |-> None, city |-> "", widgets |-> 0, image_path |-> "",
     text |-> ""]

\* x.get("order", 0)
OrderKey(s) == IF s.order = <<>> THEN 0 ELSE s.order[1]

\* slide_config.get("conditional", default)
ConditionalOr(s, default) ==
    IF s.conditional = <<>> THEN default ELSE s.conditional[1]

\* The list as configured, not sorted.
Unsorted(list) == list

\* sorted(..., key=order) one element at a time: x goes after every element
\* whose key is not greater (Python's sort is stable).
RECURSIVE InsertByOrder(_, _)
InsertByOrder(sorted, x) ==
    IF sorted = <<>> THEN <<x>>
    ELSE IF OrderKey(sorted[Len(sorted)]) <= OrderKey(x)
         THEN Append(sorted, x)
         ELSE Append(InsertByOrder(SubSeq(sorted, 1, Len(sorted) - 1), x),
                     sorted[Len(sorted)])

RECURSIVE SortSlides(_)
SortSlides(list) ==
    IF list = <<>> THEN <<>>
    ELSE InsertByOrder(SortSlides(SubSeq(list, 1, Len(list) - 1)),
                       list[Len(list)])

(***************************************************************************)
(* Slide types (backend/slides).                                           *)
(***************************************************************************)
\* The types registered in backend/slides/__init__.py.
RegisteredTypes ==
    {"pihole_summary", "plex_now_playing", "arm_rip_progress", "system_stats",
     "weather", "image", "static_text", "custom", "clock"}

\* SlideTypeRegistry.get(type_name) is not None.
Registered(type) == type \in RegisteredTypes

\* bool(d.get(key)) for a dict d of strings.
HasField(d, key) == ~d.isNone /\ DictGet(d, key, "") # ""

\* slide.get("service_config") or slide.get("api_config")
HasServiceOrApi(s) == Truthy(s.service_config) \/ Truthy(s.api_config)

\* <type>.create_collector(config_data) is not None, where config_data is
\* {"service_config": slide.get("service_config", {}), "api_config": ...}.
CreatesCollector(s) ==
    LET sc == IF s.service_config.isNone THEN EmptyDict ELSE s.service_config
    IN  CASE s.type = "pihole_summary"   -> HasField(sc, "api_url")
          [] s.type = "plex_now_playing" ->
                 HasField(sc, "api_url") /\ HasField(sc, "api_token")
          [] s.type = "arm_rip_progress" -> HasField(sc, "api_url")
          [] s.type = "system_stats"     -> TRUE
          [] s.type = "weather"          -> TRUE
          [] s.type = "custom"           -> HasField(s.api_config, "endpoint")
          [] OTHER                       -> FALSE

\* The display loop's "temp_collector is not None": a collector is only
\* asked for when the slide has a service_config or an api_config.
LoopHasCollector(s) == HasServiceOrApi(s) /\ CreatesCollector(s)

\* A should_display that never hides a slide.
ShouldDisplayAlways(s, hasCollector, d) == TRUE

\* <type>.should_display(collector, data, slide_config)
ShouldDisplay(s, hasCollector, d) ==
    CASE s.type \in {"pihole_summary", "system_stats", "weather"} ->
             hasCollector /\ ~d.isNone
      [] s.type = "plex_now_playing" ->
             IF ~ConditionalOr(s, TRUE) THEN TRUE
             ELSE IF d.isNone THEN FALSE
             ELSE DictGet(d, "session_count", 0) > 0
      [] s.type = "arm_rip_progress" ->
             IF ~ConditionalOr(s, TRUE) THEN TRUE ELSE ~d.isNone
      [] s.type = "custom"      -> s.widgets > 0
      [] s.type = "image"       -> s.image_path # ""
      [] s.type = "static_text" -> s.text # ""
      [] s.type = "clock"       -> TRUE

\* <type>.render(renderer, data, slide_config): the image shows the slide's
\* title and the data; image, static_text and clock pass None for the data.
Render(s, d) ==
    [slide |-> s.id, title |-> s.title,
     data |-> IF s.type \in {"image", "static_text", "clock"} THEN None
              ELSE d]

NoImage == [slide |-> 0, title |-> "", data |-> None]

(***************************************************************************)
(* The display loop (app.py, HomelabHUD._run_display_loop) and the         *)
(* readers of current_slide (routes.py).                                   *)
(***************************************************************************)
\* Latest wall-clock reading the display loop is followed to, in tenths of a
\* second.
MaxTime == 115

\* Passes of the display loop that are followed.
MaxPasses == 2

\* Failures (of a fetch, a render or the sink) the loop is followed through.
MaxFaults == 1

\* current_slide = None.
NoneRef == 0

\* The dict objects current_slide and a reader's local "current" can refer
\* to: with one reader at most two are alive at a time.
Refs == {1, 2}

\* What a slide's data source can answer: payloads that name their slide.
SlidePayloads(s) ==
    CASE s.type = "weather" ->
             {Dict({<<"src", s.id>>, <<"temp", 20>>}),
              Dict({<<"src", s.id>>, <<"temp", 21>>})}
      [] s.type = "plex_now_playing" ->
             {Dict({<<"src", s.id>>, <<"session_count", 0>>}),
              Dict({<<"src", s.id>>, <<"session_count", 2>>})}
      [] OTHER -> {Dict({<<"src", s.id>>}), EmptyDict}

SlideOutcomes(s) ==
    {FetchRaises} \cup {FetchReturns(v) : v \in SlidePayloads(s) \cup {None}}

\* The output sink: display_frame returns True or False; writing an exported
\* frame can raise.
SinkOutcomes == {"ok", "failed", "raise"}

NoCollector == [exists |-> FALSE, obj |-> NewCollector(FALSE)]

NoSlide == Slide(0, "", <<>>, 0, 0, <<>>, None)

\* A slot of the heap that holds no live dict.
FreeRec ==
    [slide |-> NoSlide, slide_type |-> "", title |-> "", data |-> None,
     image |-> NoImage, timestamp |-> 0]

\* The dict built at app.py:354 and app.py:423.
Snapshot(s, d, img, t) ==
    [slide |-> s, slide_type |-> s.type, title |-> s.title, data |-> d,
     image |-> img, timestamp |-> t]

\* Writing into the dict that current_slide already refers to, when there is
\* one, instead of building a new dict.
ReusedRef == IF current_slide # NoneRef THEN current_slide ELSE 1

\* The object a newly built dict is: one that nothing refers to any more
\* once current_slide is rebound (the reader may still hold the old one).
FreshRef == CHOOSE r \in Refs : r # rref /\ \A q \in Refs : q # rref => r <= q

\* The heap after current_slide is rebound to ref (or NoneRef) holding rec:
\* dicts that nothing refers to are gone.
HeapAfter(ref, rec) ==
    [r \in Refs |-> IF r = ref THEN rec
                    ELSE IF r = rref THEN heap[r] ELSE FreeRec]

NoDecision ==
    [valid |-> FALSE, idx |-> 0, slide |-> NoSlide, hasCollector |-> FALSE,
     tempData |-> None, decision |-> "none", at |-> 0]

Decision(i, s, hasColl, tempData, decision) ==
    [valid |-> TRUE, idx |-> i, slide |-> s, hasCollector |-> hasColl,
     tempData |-> tempData, decision |-> decision, at |-> now]

NoView == [kind |-> "", taken |-> FreeRec, got |-> FreeRec, read |-> {}]

\* No dict object (None).
NoObj == 0

\* The dict objects followed: the one the cache is and the one the caller
\* holds.
Objs == {1, 2}

\* A dict object newly made (by _fetch_data or by dict.copy()): not the one
\* the cache is.
NewObj == CHOOSE o \in Objs : o # cacheObj

\* What the caller does to the dict it was given: d["seen"] = 1.
Mutated(d) == Dict(d.items \cup {<<"seen", 1>>})

CallerIdle == cacheObj = NoObj /\ retObj = NoObj /\ retVal = None

\* One whole get_data() by the caller, base.py:30-63, with the identity of
\* the dict it returns: a cache hit and the stale-on-error path return
\* self._cache.copy(), a fetch stores the fetched dict and returns it.
CallerGetData ==
    /\ \E out \in FetchOutcomes :
         LET r == GetData(coll, now, out)
             copied == IF r.ret.isNone THEN NoObj ELSE NewObj
         IN  /\ coll' = r.c
             /\ retVal' = r.ret
             /\ IF r.fetched /\ ~out.raises
                THEN /\ cacheObj' = IF out.value.isNone THEN NoObj ELSE NewObj
                     /\ retObj' = cacheObj'
                ELSE /\ retObj' = copied
                     /\ UNCHANGED cacheObj
             /\ IF r.fetched
                THEN lastFetch' = [valid |-> TRUE, start |-> now,
                                   raised |-> out.raises, value |-> out.value]
                ELSE UNCHANGED lastFetch
    /\ UNCHANGED <<now, collLock, tpc, tstart, lastCall, cleared>>
    /\ UNCHANGED <<loopVars, readerVars, fileVars>>

\* The caller writes into the dict it was given.
CallerMutate ==
    /\ retObj # NoObj
    /\ retVal' = Mutated(retVal)
    /\ retVal' # retVal
    /\ IF retObj = cacheObj
       THEN coll' = [coll EXCEPT !.cache = Mutated(@)]
       ELSE UNCHANGED coll
    /\ UNCHANGED <<now, collLock, tpc, tstart, lastCall, lastFetch, cleared>>
    /\ UNCHANGED <<cacheObj, retObj>>
    /\ UNCHANGED <<loopVars, readerVars, fileVars>>

\* clear_cache() by the caller.
CallerClearCache ==
    /\ coll' = ClearCache(coll)
    /\ coll' # coll
    /\ cacheObj' = NoObj
    /\ UNCHANGED <<now, collLock, tpc, tstart, lastCall, lastFetch, cleared>>
    /\ UNCHANGED <<retObj, retVal>>
    /\ UNCHANGED <<loopVars, readerVars, fileVars>>

(***************************************************************************)
(* slides.json on disk (config.py): load_config and save_config run by     *)
(* the display loop and the request handlers, with no lock between them.   *)
(* A file's content is the sequence of the blocks written to it.           *)
(***************************************************************************)
\* No inode: the name does not exist, the thread has no file open.
NoInode == 0

\* The inodes followed.
Inodes == 1..5

\* The threads: two request handlers that save (update_slide with different
\* bodies) and one thread that loads.
Savers == {"save1", "save2"}

FileThreads == Savers \cup {"load"}

\* json.dump of the configuration saved before the threads start.
SavedContent == <<"A", "A">>

\* json.dump(get_default_slides_config()).
DefaultContent == <<"D">>

\* json.dump of what a thread saves: the body of its request; the loading
\* thread saves the defaults.
Payload(t) ==
    CASE t = "save1" -> <<"B", "B">>
      [] t = "save2" -> <<"C">>
      [] OTHER       -> DefaultContent

\* The texts json.load accepts; anything else raises JSONDecodeError.
ValidContents == {SavedContent, DefaultContent} \cup {Payload(t) : t \in Savers}

\* A file holding old into which new is written from offset 0: what is
\* beyond the new text stays.
WriteAt0(old, new) ==
    IF Len(new) >= Len(old) THEN new
    ELSE new \o SubSeq(old, Len(new) + 1, Len(old))

\* The inodes a name or an open file refers to.
InUse(nm, f) == {nm.main, nm.tmp} \cup {f[t] : t \in FileThreads}

\* An inode that is no longer referred to is gone.
Collect(nm, f, ino) ==
    [i \in Inodes |-> IF i \in InUse(nm, f) THEN ino[i] ELSE <<>>]

\* The inode of a newly created file.
FreeInode == CHOOSE i \in Inodes : i \notin InUse(names, fd)

FilesIdle ==
    /\ names = [main |-> 1, tmp |-> NoInode]
    /\ inodes = [i \in Inodes |-> IF i = 1 THEN SavedContent ELSE <<>>]
    /\ fpc = [t \in FileThreads |-> "idle"]
    /\ fd = [t \in FileThreads |-> NoInode]
    /\ loaded = <<>>

\* save_config, open(temp_file, 'w'), config.py:185: the temporary file is
\* created, or truncated if the name exists.
SaveOpen(t) ==
    /\ \/ t \in Savers /\ fpc[t] = "idle"
       \/ t = "load" /\ fpc[t] = "default"
    /\ IF names.tmp # NoInode
       THEN /\ fd' = [fd EXCEPT ![t] = names.tmp]
            /\ inodes' = [inodes EXCEPT ![names.tmp] = <<>>]
            /\ UNCHANGED names
       ELSE /\ fd' = [fd EXCEPT ![t] = FreeInode]
            /\ names' = [names EXCEPT !.tmp = FreeInode]
            /\ inodes' = [inodes EXCEPT ![FreeInode] = <<>>]
    /\ fpc' = [fpc EXCEPT ![t] = "write"]
    /\ UNCHANGED loaded
    /\ UNCHANGED <<now, collVars, loopVars, readerVars, callerVars>>

\* json.dump, flush, fsync and the end of the with block, config.py:186-188:
\* the text goes into the file that was opened, whatever its name is now.
SaveWrite(t) ==
    /\ fpc[t] = "write"
    /\ fd' = [fd EXCEPT ![t] = NoInode]
    /\ inodes' = Collect(names, fd',
                         [inodes EXCEPT ![fd[t]] = WriteAt0(@, Payload(t))])
    /\ fpc' = [fpc EXCEPT ![t] = "check"]
    /\ UNCHANGED <<names, loaded>>
    /\ UNCHANGED <<now, collVars, loopVars, readerVars, callerVars>>

\* A load_config whose save of the defaults raised: the exception reaches
\* the caller of get_slides_config.
Failed(t) == IF t = "load" THEN "raised" ELSE "failed"

\* "if not temp_file.exists() or temp_file.stat().st_size == 0: raise",
\* config.py:191-192.
SaveCheck(t) ==
    /\ fpc[t] = "check"
    /\ fpc' = [fpc EXCEPT ![t] =
                 IF names.tmp = NoInode \/ inodes[names.tmp] = <<>>
                 THEN Failed(t) ELSE "replace"]
    /\ UNCHANGED <<names, inodes, fd, loaded>>
    /\ UNCHANGED <<now, collVars, loopVars, readerVars, callerVars>>

\* temp_file.replace(file_path) and the check of the result,
\* config.py:195-203; load_config then returns the defaults.
SaveReplace(t) ==
    /\ fpc[t] = "replace"
    /\ IF names.tmp = NoInode
       THEN /\ fpc' = [fpc EXCEPT ![t] = Failed(t)]
            /\ UNCHANGED <<names, inodes, loaded>>
       ELSE /\ names' = [main |-> names.tmp, tmp |-> NoInode]
            /\ inodes' = Collect(names', fd, inodes)
            /\ IF inodes[names.tmp] = <<>>
               THEN /\ fpc' = [fpc EXCEPT ![t] = Failed(t)]
                    /\ UNCHANGED loaded
               ELSE /\ fpc' = [fpc EXCEPT ![t] =
                                 IF t = "load" THEN "loaded" ELSE "saved"]
                    /\ loaded' = IF t = "load" THEN DefaultContent ELSE loaded
    /\ UNCHANGED fd
    /\ UNCHANGED <<now, collVars, loopVars, readerVars, callerVars>>

\* load_config, "if file_path.exists()" and open(file_path, 'r'),
\* config.py:124-126.
LoadOpen ==
    /\ fpc["load"] = "idle"
    /\ IF names.main = NoInode
       THEN /\ fpc' = [fpc EXCEPT !["load"] = "default"]
            /\ UNCHANGED fd
       ELSE /\ fpc' = [fpc EXCEPT !["load"] = "read"]
            /\ fd' = [fd EXCEPT !["load"] = names.main]
    /\ UNCHANGED <<names, inodes, loaded>>
    /\ UNCHANGED <<now, collVars, loopVars, readerVars, callerVars>>

\* json.load(f), config.py:127-133: the text is returned, or the error is
\* printed and the defaults are saved in the place of the file.
LoadRead ==
    /\ fpc["load"] = "read"
    /\ fd' = [fd EXCEPT !["load"] = NoInode]
    /\ IF inodes[fd["load"]] \in ValidContents
       THEN /\ loaded' = inodes[fd["load"]]
            /\ fpc' = [fpc EXCEPT !["load"] = "loaded"]
       ELSE /\ fpc' = [fpc EXCEPT !["load"] = "default"]
            /\ UNCHANGED loaded
    /\ inodes' = Collect(names, fd', inodes)
    /\ UNCHANGED names
    /\ UNCHANGED <<now, collVars, loopVars, readerVars, callerVars>>

\* get_slides_config is called again (every pass of the display loop).
LoadAgain ==
    /\ fpc["load"] = "loaded"
    /\ fpc' = [fpc EXCEPT !["load"] = "idle"]
    /\ loaded' = <<>>
    /\ UNCHANGED <<names, inodes, fd>>
    /\ UNCHANGED <<now, collVars, loopVars, readerVars, callerVars>>

NextFiles ==
    \/ \E t \in FileThreads : SaveOpen(t)
    \/ \E t \in FileThreads : SaveWrite(t)
    \/ \E t \in FileThreads : SaveCheck(t)
    \/ \E t \in FileThreads : SaveReplace(t)
    \/ LoadOpen
    \/ LoadRead
    \/ LoadAgain

\* The collector of SpecCollector is not used by the display loop.
CollectorIdle ==
    /\ coll = NewCollector(TRUE)
    /\ collLock = "free"
    /\ tpc = [th \in Threads |-> "idle"]
    /\ tstart = [th \in Threads |-> 0]
    /\ lastCall = NoCall
    /\ lastFetch = NoCall.prevFetch
    /\ cleared = FALSE

\* HomelabHUD.__init__ and start(): running, no current slide.
LoopInit(configs) ==
    /\ now = 0
    /\ running = TRUE
    /\ config \in configs
    /\ pc = "top"
    /\ slides = <<>>
    /\ idx = 0
    /\ collector = NoCollector
    /\ data = None
    /\ image = NoImage
    /\ elapsed = FZero
    /\ last_refresh = FZero
    /\ current_slide = NoneRef
    /\ heap = [r \in Refs |-> FreeRec]
    /\ sinkFrame = NoImage
    /\ rpc = "idle"
    /\ rref = NoneRef
    /\ rview = NoView
    /\ visited = <<>>
    /\ passEnd = "none"
    /\ lastSlide = NoDecision
    /\ renders = 0
    /\ frames = 0
    /\ fetches = 0
    /\ refreshLog = <<>>
    /\ faults = 0
    /\ passes = 0

\* One read of the slide's data at time t with fetch outcome out (app.py:298,
\* 333, 400): a weather slide with a city calls get_data_for_city, which
\* uses neither the cache nor the lock; an exception leaves the data None.
ReadData(s, c, t, out) ==
    IF s.type = "weather" /\ s.city # ""
    THEN [c |-> c, ret |-> IF out.raises THEN None ELSE out.value,
          fetched |-> TRUE]
    ELSE GetData(c, t, out)

\* How many of a step's calls failed: the fetch raised, the render raised,
\* the sink returned False or raised.
Faults(fetchRaised, renderOk, sink) ==
    (IF fetchRaised THEN 1 ELSE 0) + (IF renderOk THEN 0 ELSE 1)
    + (IF sink = "ok" THEN 0 ELSE 1)

\* "break" in the place of "continue": the for loop is left.
Break(i, n) == n + 1

\* "continue" of the for loop: the next slide of the same pass.
Continue(i, n) == i + 1

\* while self.running: the loop ends, or a pass starts by reading and
\* sorting the configuration; an exception of the read (app.py:257-261)
\* reaches the handler of the pass.
PassStart ==
    /\ pc = "top"
    /\ IF ~running
       THEN /\ pc' = "stopped"
            /\ UNCHANGED <<slides, idx, visited, passEnd, passes, lastSlide,
                           faults>>
       ELSE /\ passes < MaxPasses
            /\ passes' = passes + 1
            /\ \E readOk \in BOOLEAN :
                 IF readOk
                 THEN /\ slides' = SortSlides(config)
                      /\ visited' = <<>>
                      /\ lastSlide' = NoDecision
                      /\ passEnd' = "none"
                      /\ IF slides' = <<>>
                         THEN pc' = "sleep5" /\ idx' = 0
                         ELSE pc' = "for" /\ idx' = 1
                      /\ UNCHANGED faults
                 ELSE /\ faults < MaxFaults
                      /\ faults' = faults + 1
                      /\ pc' = "backoff"
                      /\ passEnd' = "error"
                      /\ visited' = <<>>
                      /\ lastSlide' = NoDecision
                      /\ UNCHANGED <<slides, idx>>
    /\ UNCHANGED <<now, running, config, collector, data, image, elapsed,
                   last_refresh, current_slide, heap, sinkFrame, renders,
                   frames, fetches, refreshLog>>
    /\ UNCHANGED <<collVars, readerVars, callerVars, fileVars>>

\* No slides configured and no sleep: the next pass at once.
RetryNoSlides ==
    /\ pc = "sleep5"
    /\ pc' = "top"
    /\ passEnd' = "empty"
    /\ UNCHANGED <<now, running, config, slides, idx, collector, data, image,
                   elapsed, last_refresh, current_slide, heap, sinkFrame,
                   visited, lastSlide, renders, frames, fetches, refreshLog,
                   faults, passes>>
    /\ UNCHANGED <<collVars, readerVars, callerVars, fileVars>>

\* No slides configured: time.sleep(5), then the next pass.
SleepNoSlides ==
    /\ pc = "sleep5"
    /\ now + 50 <= MaxTime
    /\ now' = now + 50
    /\ pc' = "top"
    /\ passEnd' = "empty"
    /\ UNCHANGED <<running, config, slides, idx, collector, data, image,
                   elapsed, last_refresh, current_slide, heap, sinkFrame,
                   visited, lastSlide, renders, frames, fetches, refreshLog,
                   faults, passes>>
    /\ UNCHANGED <<collVars, readerVars, callerVars, fileVars>>

\* The for loop is exhausted, or "if not self.running: break".
ForEnd ==
    /\ pc = "for"
    /\ idx > Len(slides) \/ ~running
    /\ pc' = "top"
    /\ passEnd' = IF idx > Len(slides) THEN "complete" ELSE "break"
    /\ UNCHANGED <<now, running, config, slides, idx, collector, data, image,
                   elapsed, last_refresh, current_slide, heap, sinkFrame,
                   visited, lastSlide, renders, frames, fetches, refreshLog,
                   faults, passes>>
    /\ UNCHANGED <<collVars, readerVars, callerVars, fileVars>>

\* A slide whose type is not registered: logged, continue.
SkipUnknown ==
    /\ pc = "for"
    /\ idx <= Len(slides) /\ running
    /\ ~Registered(slides[idx].type)
    /\ visited' = Append(visited, slides[idx].id)
    /\ lastSlide' = Decision(idx, slides[idx], FALSE, None, "unknown")
    /\ idx' = Continue(idx, Len(slides))
    /\ renders' = 0 /\ frames' = 0 /\ fetches' = 0
    /\ refreshLog' = <<>>
    /\ UNCHANGED <<now, running, config, pc, slides, collector, data, image,
                   elapsed, last_refresh, current_slide, heap, sinkFrame,
                   passEnd, faults, passes>>
    /\ UNCHANGED <<collVars, readerVars, callerVars, fileVars>>

\* A slide of a registered type, app.py:281-311: the temporary collector,
\* the data for the check, should_display; a slide that is not to be shown
\* sets current_slide to None and the loop continues.
ResolveSlide ==
    /\ pc = "for"
    /\ idx <= Len(slides) /\ running
    /\ Registered(slides[idx].type)
    /\ LET s       == slides[idx]
           hasColl == LoopHasCollector(s)
       IN  \E out \in SlideOutcomes(s) :
             LET rd == IF hasColl
                       THEN ReadData(s, NewCollector(TRUE), now, out)
                       ELSE [c |-> NewCollector(FALSE), ret |-> None,
                             fetched |-> FALSE]
                 show == ShouldDisplay(s, hasColl, rd.ret)
             IN  /\ hasColl \/ out = FetchRaises
                 /\ faults' = faults + Faults(hasColl /\ out.raises, TRUE, "ok")
                 /\ faults' <= MaxFaults
                 /\ visited' = Append(visited, s.id)
                 /\ collector' = [exists |-> hasColl, obj |-> rd.c]
                 /\ data' = rd.ret
                 /\ fetches' = IF rd.fetched THEN 1 ELSE 0
                 /\ lastSlide' = Decision(idx, s, hasColl, rd.ret,
                                          IF show THEN "display" ELSE "hidden")
                 /\ IF show
                    THEN /\ pc' = "initial"
                         /\ UNCHANGED <<idx, current_slide, heap>>
                    ELSE /\ pc' = "for"
                         /\ idx' = Continue(idx, Len(slides))
                         /\ current_slide' = NoneRef
                         /\ heap' = HeapAfter(NoneRef, FreeRec)
    /\ renders' = 0 /\ frames' = 0
    /\ refreshLog' = <<>>
    /\ UNCHANGED <<now, running, config, slides, image, elapsed, last_refresh,
                   sinkFrame, passEnd, passes>>
    /\ UNCHANGED <<collVars, readerVars, callerVars, fileVars>>

\* app.py:313-381: the initial data, the first render, the publish and the
\* first frame.  A render error continues with the next slide; an error of
\* the sink reaches the handler of the pass.
ShowInitial ==
    /\ pc = "initial"
    /\ LET s == slides[idx]
       IN  \E out \in SlideOutcomes(s), renderOk \in BOOLEAN,
              sink \in SinkOutcomes :
             LET again == data.isNone /\ collector.exists
                 rd == IF again THEN ReadData(s, collector.obj, now, out)
                       ELSE [c |-> collector.obj, ret |-> data,
                             fetched |-> FALSE]
                 img == Render(s, rd.ret)
             IN  /\ again \/ out = FetchRaises
                 /\ renderOk \/ sink = "ok"
                 /\ faults' = faults + Faults(again /\ out.raises, renderOk,
                                              sink)
                 /\ faults' <= MaxFaults
                 /\ collector' = [collector EXCEPT !.obj = rd.c]
                 /\ data' = rd.ret
                 /\ fetches' = fetches + (IF rd.fetched THEN 1 ELSE 0)
                 /\ renders' = renders + 1
                 /\ IF ~renderOk
                    THEN /\ pc' = "for"
                         /\ idx' = Continue(idx, Len(slides))
                         /\ lastSlide' = [lastSlide EXCEPT
                                            !.decision = "render_failed"]
                         /\ UNCHANGED <<image, current_slide, heap, sinkFrame,
                                        frames, elapsed, last_refresh,
                                        passEnd>>
                    ELSE /\ image' = img
                         /\ current_slide' = FreshRef
                         /\ heap' = HeapAfter(FreshRef,
                                              Snapshot(s, rd.ret, img, now))
                         /\ lastSlide' = [lastSlide EXCEPT
                                            !.decision = "shown"]
                         /\ frames' = frames + 1
                         /\ sinkFrame' = IF sink = "ok" THEN img ELSE sinkFrame
                         /\ elapsed' = FZero
                         /\ last_refresh' = FZero
                         /\ IF sink = "raise"
                            THEN pc' = "backoff" /\ passEnd' = "error"
                            ELSE pc' = "hold" /\ UNCHANGED passEnd
                         /\ UNCHANGED idx
    /\ UNCHANGED <<now, running, config, slides, visited, refreshLog, passes>>
    /\ UNCHANGED <<collVars, readerVars, callerVars, fileVars>>

\* An error of the re-render that is not caught inside the hold: it reaches
\* the handler of the pass.
ReRenderErrorPropagates == "backoff"

\* except Exception ... continue, app.py:415-419: the while loop of the hold
\* goes on with its condition.
ReRenderErrorContinues == "hold"

\* elapsed - last_refresh >= refresh_duration
RefreshDue(e, last, s) == FGe(FSub(e, last), FInt(s.refresh_duration))

\* elapsed % 1.0 < sleep_interval
TouchDue(e) == FLt(FMod1(e), FTenth)

\* A while condition that does not look at self.running.
HoldingIgnoresStop(e, s) == FLt(e, FInt(s.duration))

\* A while condition that also ends the hold when the data is None.
HoldingWhileData(e, s) == FLt(e, FInt(s.duration)) /\ running /\ ~data.isNone

\* while elapsed < display_duration and self.running
Holding(e, s) == FLt(e, FInt(s.duration)) /\ running

\* The hold is over (or the loop was told to stop): the next slide.
HoldEnd ==
    /\ pc = "hold"
    /\ ~Holding(elapsed, slides[idx])
    /\ pc' = "for"
    /\ idx' = idx + 1
    /\ UNCHANGED <<now, running, config, slides, collector, data, image,
                   elapsed, last_refresh, current_slide, heap, sinkFrame,
                   visited, passEnd, lastSlide, renders, frames, fetches,
                   refreshLog, faults, passes>>
    /\ UNCHANGED <<collVars, readerVars, callerVars, fileVars>>

\* The while condition holds: the loop goes to sleep for one tick.
HoldSleep ==
    /\ pc = "hold"
    /\ Holding(elapsed, slides[idx])
    /\ pc' = "sleep"
    /\ UNCHANGED <<now, running, config, slides, idx, collector, data, image,
                   elapsed, last_refresh, current_slide, heap, sinkFrame,
                   visited, passEnd, lastSlide, renders, frames, fetches,
                   refreshLog, faults, passes>>
    /\ UNCHANGED <<collVars, readerVars, callerVars, fileVars>>

\* The sleep of 0.1 s is over and no refresh is due: count the tick.
HoldTick ==
    /\ pc = "sleep"
    /\ now + 1 <= MaxTime
    /\ ~RefreshDue(FAdd(elapsed, FTenth), last_refresh, slides[idx])
    /\ now' = now + 1
    /\ elapsed' = FAdd(elapsed, FTenth)
    /\ pc' = "touch"
    /\ UNCHANGED <<running, config, slides, idx, collector, data, image,
                   last_refresh, current_slide, heap, sinkFrame, visited,
                   passEnd, lastSlide, renders, frames, fetches, refreshLog,
                   faults, passes>>
    /\ UNCHANGED <<collVars, readerVars, callerVars, fileVars>>

\* One tick of the hold with a refresh, app.py:390-448: clear_cache, read
\* the data again, render, publish, show, move the checkpoint.  A render
\* error continues the while loop at once; an error of the sink reaches the
\* handler of the pass.
HoldRefresh ==
    /\ pc = "sleep"
    /\ now + 1 <= MaxTime
    /\ RefreshDue(FAdd(elapsed, FTenth), last_refresh, slides[idx])
    /\ now' = now + 1
    /\ elapsed' = FAdd(elapsed, FTenth)
    /\ refreshLog' = Append(refreshLog, elapsed'.n)
    /\ LET s == slides[idx]
       IN  \E out \in SlideOutcomes(s), renderOk \in BOOLEAN,
              sink \in SinkOutcomes :
             LET rd == IF collector.exists
                       THEN ReadData(s, ClearCache(collector.obj), now', out)
                       ELSE [c |-> collector.obj, ret |-> None,
                             fetched |-> FALSE]
                 img == Render(s, rd.ret)
             IN  /\ collector.exists \/ out = FetchRaises
                 /\ renderOk \/ sink = "ok"
                 /\ collector' = [collector EXCEPT !.obj = rd.c]
                 /\ data' = rd.ret
                 /\ fetches' = fetches + (IF rd.fetched THEN 1 ELSE 0)
                 /\ renders' = renders + 1
                 /\ faults' = faults + Faults(collector.exists /\ out.raises,
                                              renderOk, sink)
                 /\ faults' <= MaxFaults
                 /\ IF ~renderOk
                    THEN /\ pc' = ReRenderErrorContinues
                         /\ UNCHANGED <<image, current_slide, heap, sinkFrame,
                                        frames, last_refresh, passEnd>>
                    ELSE /\ image' = img
                         /\ current_slide' = FreshRef
                         /\ heap' = HeapAfter(FreshRef,
                                              Snapshot(s, rd.ret, img, now'))
                         /\ frames' = frames + 1
                         /\ sinkFrame' = IF sink = "ok" THEN img ELSE sinkFrame
                         /\ IF sink = "raise"
                            THEN /\ pc' = "backoff" /\ passEnd' = "error"
                                 /\ UNCHANGED last_refresh
                            ELSE /\ pc' = "touch" /\ UNCHANGED passEnd
                                 /\ last_refresh' = elapsed'
    /\ UNCHANGED <<running, config, slides, idx, visited, lastSlide, passes>>
    /\ UNCHANGED <<collVars, readerVars, callerVars, fileVars>>

\* The end of a tick, app.py:450-454: about once a second the timestamp of
\* the current dict is set, in place.
HoldTouch ==
    /\ pc = "touch"
    /\ pc' = "hold"
    /\ IF TouchDue(elapsed) /\ current_slide # NoneRef
       THEN heap' = [heap EXCEPT ![current_slide].timestamp = now]
       ELSE UNCHANGED heap
    /\ UNCHANGED <<now, running, config, slides, idx, collector, data, image,
                   elapsed, last_refresh, current_slide, sinkFrame, visited,
                   passEnd, lastSlide, renders, frames, fetches, refreshLog,
                   faults, passes>>
    /\ UNCHANGED <<collVars, readerVars, callerVars, fileVars>>

\* A handler of the pass that ends the loop instead of backing off.
BackoffStops ==
    /\ pc = "backoff"
    /\ pc' = "stopped"
    /\ UNCHANGED <<now, running, config, slides, idx, collector, data, image,
                   elapsed, last_refresh, current_slide, heap, sinkFrame,
                   visited, passEnd, lastSlide, renders, frames, fetches,
                   refreshLog, faults, passes>>
    /\ UNCHANGED <<collVars, readerVars, callerVars, fileVars>>

\* except Exception at the level of the pass: time.sleep(1), next pass.
Backoff ==
    /\ pc = "backoff"
    /\ now + 10 <= MaxTime
    /\ now' = now + 10
    /\ pc' = "top"
    /\ UNCHANGED <<running, config, slides, idx, collector, data, image,
                   elapsed, last_refresh, current_slide, heap, sinkFrame,
                   visited, passEnd, lastSlide, renders, frames, fetches,
                   refreshLog, faults, passes>>
    /\ UNCHANGED <<collVars, readerVars, callerVars, fileVars>>

\* HomelabHUD.stop(), from another thread.
Stop ==
    /\ running
    /\ pc # "stopped"
    /\ running' = FALSE
    /\ UNCHANGED <<now, config, pc, slides, idx, collector, data, image,
                   elapsed, last_refresh, current_slide, heap, sinkFrame,
                   visited, passEnd, lastSlide, renders, frames, fetches,
                   refreshLog, faults, passes>>
    /\ UNCHANGED <<collVars, readerVars, callerVars, fileVars>>

LoopStep ==
    \/ PassStart
    \/ SleepNoSlides
    \/ ForEnd
    \/ SkipUnknown
    \/ ResolveSlide
    \/ ShowInitial
    \/ HoldEnd
    \/ HoldSleep
    \/ HoldTick
    \/ HoldRefresh
    \/ HoldTouch
    \/ Backoff
    \/ Stop

(***************************************************************************)
(* The readers of current_slide (routes.py): GET /api/current-slide        *)
(* ("info") and GET /api/preview/current ("preview").                      *)
(***************************************************************************)
\* The keys a handler reads from the dict it took, in the order it reads
\* them.
ReaderFields(kind) ==
    IF kind = "info" THEN <<"slide", "title", "slide_type", "timestamp", "data">>
    ELSE <<"image">>

ReaderKinds == {"info", "preview"}

\* with app_instance.current_slide_lock: current = app_instance.current_slide
\* and "if current:"; the display loop's publishes are atomic steps, so the
\* lock is free whenever this step is taken.
ReaderTake ==
    /\ rpc = "idle"
    /\ \E kind \in ReaderKinds :
         /\ rref' = current_slide
         /\ rview' = [kind |-> kind,
                      taken |-> IF current_slide = NoneRef THEN FreeRec
                                ELSE heap[current_slide],
                      got |-> FreeRec, read |-> {}]
         /\ rpc' = IF current_slide = NoneRef THEN "returned"
                   ELSE ReaderFields(kind)[1]
    /\ UNCHANGED <<now, collVars, loopVars, callerVars, fileVars>>

\* current.get(key), outside the lock: one key of the dict as it is now.
ReaderRead ==
    /\ rpc \notin {"idle", "returned"}
    /\ LET fields == ReaderFields(rview.kind)
           k == CHOOSE i \in DOMAIN fields : fields[i] = rpc
       IN  /\ rview' = [rview EXCEPT !.got[rpc] = heap[rref][rpc],
                                     !.read = @ \cup {rpc}]
           /\ rpc' = IF k = Len(fields) THEN "returned" ELSE fields[k + 1]
    /\ UNCHANGED <<now, collVars, loopVars, rref, callerVars, fileVars>>

\* The handler returns: its local "current" is gone, and with it the dict
\* when nothing else refers to it.
ReaderReturn ==
    /\ rpc = "returned"
    /\ rpc' = "idle"
    /\ rref' = NoneRef
    /\ rview' = NoView
    /\ heap' = [r \in Refs |-> IF r = current_slide THEN heap[r] ELSE FreeRec]
    /\ UNCHANGED <<now, collVars, running, config, pc, slides, idx, collector,
                   data, image, elapsed, last_refresh, current_slide,
                   sinkFrame, visited, passEnd, lastSlide, renders, frames,
                   fetches, refreshLog, faults, passes>>
    /\ UNCHANGED <<callerVars, fileVars>>

ReaderStep == ReaderTake \/ ReaderRead \/ ReaderReturn

(***************************************************************************)
(* The configurations explored.                                            *)
(***************************************************************************)
\* A service_config with an endpoint and a token.
Svc == Dict({<<"api_url", "http://svc">>, <<"api_token", "token">>})

\* The slide of the spec's scenario, as written there (no service_config),
\* and the same slide with a service_config.
ScenarioSlide == Slide(1, "weather", <<0>>, 4, 2, <<FALSE>>, None)

CfgScenario == <<ScenarioSlide>>

CfgScenarioSvc == <<[ScenarioSlide EXCEPT !.service_config = Svc]>>

\* duration=10, refresh_duration=3 (P5).
CfgCadence == <<Slide(1, "pihole_summary", <<0>>, 10, 3, <<FALSE>>, Svc)>>

\* Slides with order 2, 0 and missing (taken as 0), one of them of an
\* unregistered type (OctoPiSlideType is defined but not registered), in
\* every list order.
OrderSlides ==
    {Slide(1, "clock", <<2>>, 1, 1, <<FALSE>>, None),
     Slide(2, "octopi_print_status", <<0>>, 1, 1, <<TRUE>>, Svc),
     [Slide(3, "static_text", <<>>, 1, 1, <<>>, None) EXCEPT !.text = "hello"]}

OrderConfigs ==
    {l \in [1..Cardinality(OrderSlides) -> OrderSlides] :
        \A i, j \in DOMAIN l : i # j => l[i] # l[j]}

\* A slide of the given registered type with what its type needs to have a
\* collector and content, and the given conditional flag.
TypeSlide(type, cond) ==
    LET s == Slide(1, type, <<0>>, 1, 1, cond, Svc)
    IN  CASE type = "weather" -> [s EXCEPT !.city = "Oslo"]
          [] type = "custom"  ->
                 [s EXCEPT !.service_config = None,
                           !.api_config = Dict({<<"endpoint", "http://api">>}),
                           !.widgets = 1]
          [] type = "image"       -> [s EXCEPT !.image_path = "a.png"]
          [] type = "static_text" -> [s EXCEPT !.text = "hello"]
          [] OTHER -> s

\* Each registered type, conditional and not, followed by a clock.
TypeConfigs ==
    {<<TypeSlide(type, <<cond>>), Slide(2, "clock", <<1>>, 1, 1, <<FALSE>>, None)>> :
        type \in RegisteredTypes, cond \in BOOLEAN}

Configs ==
    {CfgScenario, CfgScenarioSvc, CfgCadence, <<>>} \cup TypeConfigs
    \cup OrderConfigs

Init ==
    LoopInit(Configs) /\ CollectorIdle /\ CallerIdle /\ FilesIdle

Next == LoopStep

Spec == Init /\ [][Next]_vars

\* The display loop with a reader of current_slide: a weather slide with a
\* collector and duration 0 (it is published and the loop moves on), a
\* slide of an unregistered type and a clock held for a second; or no slide.
ReaderConfigs ==
    {<<>>,
     <<Slide(1, "weather", <<0>>, 0, 1, <<TRUE>>, Svc),
       Slide(2, "octopi_print_status", <<1>>, 1, 1, <<TRUE>>, Svc),
       Slide(3, "clock", <<2>>, 1, 1, <<FALSE>>, None)>>}

InitReaders ==
    LoopInit(ReaderConfigs) /\ CollectorIdle /\ CallerIdle /\ FilesIdle

NextReaders == LoopStep \/ ReaderStep

SpecReaders == InitReaders /\ [][NextReaders]_vars

\* The same with a clock held for two seconds and refreshed after two: its
\* hold has a tick at which the timestamp is set and no refresh is due.
TouchConfigs ==
    {<<>>,
     <<Slide(1, "weather", <<0>>, 0, 1, <<TRUE>>, Svc),
       Slide(2, "octopi_print_status", <<1>>, 1, 1, <<TRUE>>, Svc),
       Slide(3, "clock", <<2>>, 2, 2, <<FALSE>>, None)>>}

InitTouch ==
    LoopInit(TouchConfigs) /\ CollectorIdle /\ CallerIdle /\ FilesIdle

SpecTouch == InitTouch /\ [][NextReaders]_vars

\* The display loop while the configuration is edited: the slide lists
\* that save_slides_config can commit.
EditConfigs ==
    {<<>>,
     <<Slide(1, "clock", <<0>>, 1, 1, <<FALSE>>, None)>>,
     <<Slide(2, "octopi_print_status", <<1>>, 1, 1, <<TRUE>>, Svc),
       Slide(3, "clock", <<0>>, 0, 1, <<FALSE>>, None)>>}

\* An edit whose new list also replaces the list the pass is working on.
EditConfigAliased ==
    /\ \E c \in EditConfigs : c # config /\ config' = c
    /\ slides' = SortSlides(config')
    /\ UNCHANGED <<now, running, pc, idx, collector, data, image, elapsed,
                   last_refresh, current_slide, heap, sinkFrame, visited,
                   passEnd, lastSlide, renders, frames, fetches, refreshLog,
                   faults, passes>>
    /\ UNCHANGED <<collVars, readerVars, callerVars, fileVars>>

\* save_slides_config, from a request thread: the file is replaced by the
\* new list.
EditConfig ==
    /\ \E c \in EditConfigs : c # config /\ config' = c
    /\ UNCHANGED <<now, running, pc, slides, idx, collector, data, image,
                   elapsed, last_refresh, current_slide, heap, sinkFrame,
                   visited, passEnd, lastSlide, renders, frames, fetches,
                   refreshLog, faults, passes>>
    /\ UNCHANGED <<collVars, readerVars, callerVars, fileVars>>

InitEdit ==
    LoopInit(EditConfigs) /\ CollectorIdle /\ CallerIdle /\ FilesIdle

NextEdit == LoopStep \/ EditConfig

SpecEdit == InitEdit /\ [][NextEdit]_vars

\* The collector specification leaves the display loop where it starts.
LoopIdle == LoopInit({<<>>})

InitCollectorOnly == InitCollector /\ LoopIdle /\ CallerIdle /\ FilesIdle

SpecCollector == InitCollectorOnly /\ [][NextCollector]_vars

\* The WeatherCollector of a weather slide that has a city, read by two
\* threads: every read is get_data_for_city(city).
NextWeather ==
    \/ \E th \in Threads : GetDataForCity(th)
    \/ \E th \in Threads : GetDataForCityReturn(th)
    \/ \E th \in Threads : CallClearCache(th)
    \/ Advance

\* WeatherSlideType.create_collector: a collector that is enabled.
InitWeather == InitCollectorOnly /\ coll = NewCollector(TRUE)

SpecWeather == InitWeather /\ [][NextWeather]_vars

\* One collector and one caller that keeps what get_data() returned.
InitCaller == CollectorIdle /\ LoopIdle /\ CallerIdle /\ FilesIdle

NextCaller == CallerGetData \/ CallerMutate \/ CallerClearCache \/ Advance

SpecCaller == InitCaller /\ [][NextCaller]_vars

\* slides.json with a configuration saved, two threads that save and one
\* that loads.
InitFiles == CollectorIdle /\ LoopIdle /\ CallerIdle /\ FilesIdle

SpecFiles == InitFiles /\ [][NextFiles]_vars

(***************************************************************************)
(* Claims about the collector, checked under SpecCollector.                *)
(***************************************************************************)
\* The call that completed last came less than 5 s after the latest fetching
\* call before it, which did not raise, with no clear_cache() in between.
WithinTTLOfFetch ==
    /\ lastCall.valid
    /\ lastCall.prevFetch.valid
    /\ ~lastCall.prevFetch.raised
    /\ ~lastCall.clearedSince
    /\ lastCall.start - lastCall.prevFetch.start < 10 * CacheTTL

\* C1 (P1, TTL caching): two get_data() calls less than 5 s apart with no
\* clear_cache() between them invoke _fetch_data at most once, whatever the
\* first fetch returned without raising (a dict or None): a call made within
\* 5 s of a call that fetched does not fetch again.
C1_AtMostOneFetchWithinTTL == WithinTTLOfFetch => ~lastCall.fetched

\* C2 (P2, stale-on-error): a fetch succeeded with a non-empty payload, then
\* clear_cache() was called, then the next fetch raised: that get_data()
\* returns the first payload.
C2_StaleOnErrorAfterClear ==
    ( /\ lastCall.valid
      /\ lastCall.raised
      /\ lastCall.clearedSince
      /\ lastCall.prevFetch.valid
      /\ ~lastCall.prevFetch.raised
      /\ Truthy(lastCall.prevFetch.value) )
    => lastCall.ret = lastCall.prevFetch.value

\* C3: get_data() never raises; when its fetch raises it records the error in
\* last_error and returns the previously cached value if there is one,
\* otherwise None.
C3_FetchErrorReturnsCached ==
    (lastCall.valid /\ lastCall.raised)
    => /\ lastCall.errAfter # NoError
       /\ lastCall.ret = lastCall.cacheBefore

(***************************************************************************)
(* Claims about the display loop, checked under Spec.                      *)
(***************************************************************************)
\* The slide visited last is of a registered type.
LastRegistered == lastSlide.valid /\ Registered(lastSlide.slide.type)

\* C4 (P4, non-conditional always shows): a slide of a registered type whose
\* conditional is false is never passed over by should_display, whatever
\* its collector and its data are.
C4_NonConditionalAlwaysShows ==
    (LastRegistered /\ lastSlide.slide.conditional = <<FALSE>>)
        => lastSlide.decision # "hidden"

\* The slide visited last is conditional and its collector returned None.
ConditionalWithoutData ==
    /\ LastRegistered
    /\ lastSlide.slide.conditional = <<TRUE>>
    /\ lastSlide.hasCollector
    /\ lastSlide.tempData.isNone

\* The slide visited last was passed over as P3 asks: CurrentSlide is None,
\* no render, no frame on the sink, no time spent, the for loop is at the
\* next slide.
PassedOver ==
    /\ lastSlide.decision = "hidden"
    /\ current_slide = NoneRef
    /\ renders = 0 /\ frames = 0
    /\ now = lastSlide.at
    /\ pc \in {"for", "top", "stopped"}
    /\ idx = lastSlide.idx + 1

\* C5 as stated (P3, conditional hides), for every slide type: a conditional
\* slide whose collector returns None is passed over.
C5_ConditionalHidesAnyType == ConditionalWithoutData => PassedOver

\* The types whose should_display looks at the data.
DataTypes ==
    {"pihole_summary", "plex_now_playing", "arm_rip_progress", "weather",
     "system_stats"}

\* C5 (P3, conditional hides), for the types whose display policy looks at
\* the data: a conditional slide whose collector returns None is passed
\* over: CurrentSlide is None, nothing is rendered or shown, no hold time is
\* spent and the loop goes on to the next slide.
C5_ConditionalHides ==
    (ConditionalWithoutData /\ lastSlide.slide.type \in DataTypes)
        => PassedOver

\* C5 witness: a conditional arm_rip_progress slide whose collector returned
\* None has been passed over and the loop is at the next slide.
C5_Witness ==
    /\ ConditionalWithoutData
    /\ lastSlide.slide.type = "arm_rip_progress"
    /\ PassedOver
    /\ pc = "for" /\ idx = 2 /\ idx <= Len(slides)

\* |a - b| <= 1
WithinOneTick(a, b) == a - b <= 1 /\ b - a <= 1

\* C6 (P5, refresh cadence): in a hold in which nothing has failed, the k-th
\* refresh fires at k * refresh_duration of elapsed time (give or take one
\* tick of 100 ms).
C6_RefreshCadence ==
    (pc \in {"hold", "sleep", "touch"} /\ faults = 0)
        => \A k \in DOMAIN refreshLog :
               WithinOneTick(refreshLog[k],
                             k * 10 * slides[idx].refresh_duration)

\* Where the slide with the given id is in the configured list.
ConfigPos(id) == CHOOSE k \in DOMAIN config : config[k].id = id

\* C7 (P6, ordering): the slides a pass has visited so far are in ascending
\* order of their order field (0 when missing), and slides of equal order
\* are in the order of the configured list.
C7_VisitedInOrder ==
    \A i, j \in DOMAIN visited :
        i < j =>
            LET a == config[ConfigPos(visited[i])]
                b == config[ConfigPos(visited[j])]
            IN  \/ OrderKey(a) < OrderKey(b)
                \/ /\ OrderKey(a) = OrderKey(b)
                   /\ ConfigPos(visited[i]) < ConfigPos(visited[j])

\* C7 witness: a pass over the list <<order 2, order missing, order 0>> has
\* visited the slide without order, then the one of order 0, then order 2.
C7_Witness ==
    /\ passEnd = "complete"
    /\ Len(config) = 3
    /\ <<config[1].id, config[2].id, config[3].id>> = <<1, 3, 2>>
    /\ visited = <<3, 2, 1>>

\* C8 (P7, skip unknown type): passing over a slide of an unregistered type
\* raises nothing and leaves the loop at the next slide of the same pass,
\* and a pass that ran to its end has visited every configured slide.
C8_UnknownTypeSkipped ==
    /\ lastSlide.decision = "unknown"
           => /\ pc \in {"for", "top", "stopped"}
              /\ idx = lastSlide.idx + 1
              /\ passEnd \in {"none", "complete", "break"}
    /\ passEnd = "complete"
           => /\ Len(visited) = Len(config)
              /\ \A k \in DOMAIN config :
                     \E i \in DOMAIN visited : visited[i] = config[k].id

\* C8 witness: a pass whose list has a slide of an unregistered type before
\* its last slide ran to its end and visited every slide.
C8_Witness ==
    /\ passEnd = "complete"
    /\ Len(visited) = Len(slides)
    /\ \E i \in DOMAIN slides :
           i < Len(slides) /\ ~Registered(slides[i].type)

\* C9 (scenario): the weather slide with duration 4 and refresh_duration 2,
\* given a service_config so that it has a collector, is refreshed once
\* in its hold when nothing fails, and CurrentSlide is not None while it is
\* held.
C9_ScenarioOneRefresh ==
    (config = CfgScenarioSvc /\ faults = 0
     /\ pc \in {"hold", "sleep", "touch"})
        => current_slide # NoneRef /\ Len(refreshLog) <= 1

(***************************************************************************)
(* Claims about the readers of current_slide, checked under SpecReaders.   *)
(***************************************************************************)
\* The keys of a snapshot that describe what is shown.
ContentFields == {"slide", "slide_type", "title", "data", "image"}

\* The record is one the display loop builds in one publish of one slide.
OnePublish(rec) ==
    /\ rec.slide_type = rec.slide.type
    /\ rec.title = rec.slide.title
    /\ rec.image = Render(rec.slide, rec.data)
    /\ ~rec.data.isNone /\ rec.data.items # {}
           => <<"src", rec.slide.id>> \in rec.data.items

\* C10 (snapshot consistency): the record a reader took under the lock is
\* one publish of one slide, and every content field the reader reads from
\* it afterwards is the field of that publish, however the display loop is
\* interleaved with the reads.
C10_SnapshotConsistent ==
    rref # NoneRef
        => /\ OnePublish(rview.taken)
           /\ \A f \in rview.read \cap ContentFields :
                  rview.got[f] = rview.taken[f]

\* C10 witness: a reader has read every key of a snapshot of one slide
\* while the display loop went on to publish another slide.
C10_Witness ==
    /\ rpc = "returned" /\ rview.kind = "info"
    /\ rref # NoneRef /\ current_slide # NoneRef /\ current_slide # rref
    /\ heap[current_slide].slide.id # rview.taken.slide.id
    /\ ~rview.taken.data.isNone

(***************************************************************************)
(* Claims about errors and stopping, checked under Spec.                   *)
(***************************************************************************)
\* C11 (per-slide exception isolation): when an exception has been raised
\* while a slide was being processed, the for loop is at the next slide of
\* the same pass.
C11_SlideExceptionIsolated ==
    passEnd = "error" => pc = "for" /\ idx = lastSlide.idx + 1

\* C12 (the loop survives exceptions): the loop ends only when running is
\* false; a step in which an exception is raised leaves running as it was
\* and takes the loop to the handler of the pass, which after a backoff of
\* 1 s returns to the top of the loop, where a new pass starts.
C12_ExceptionsCaught ==
    [][/\ pc' = "stopped" => ~running'
       /\ (passEnd' = "error" /\ pc # "backoff" /\ pc' = "backoff")
              => running' = running
       /\ (passEnd' = "error" /\ passEnd # "error") => pc' = "backoff"
       /\ (pc = "backoff" /\ pc' # "backoff")
              => pc' = "top" /\ now' = now + 10 /\ running' = running
       /\ (pc = "top" /\ passEnd = "error" /\ running /\ pc' # "top")
              => passes' = passes + 1 /\ pc' # "stopped"]_vars

\* C12 witness: after an exception at the very start (time 0) and the
\* backoff of 1 s, a second pass is under way and running is true.
C12_Witness ==
    /\ passes = 2 /\ faults >= 1 /\ now = 10 /\ running
    /\ pc = "for" /\ passEnd = "none"

\* C13 (cooperative stop): once running is false, a hold that is at its
\* while condition ends at once, a tick that is under way is completed (one
\* sleep, at most one publish, the touch) and leads back to the while
\* condition, no further slide is started and the loop ends.
C13_CooperativeStop ==
    [][~running =>
         /\ pc = "hold" => /\ pc' = "for"
                           /\ UNCHANGED <<now, elapsed, current_slide, heap>>
         /\ pc = "sleep" => /\ pc' \in {"touch", "hold", "backoff"}
                            /\ now' = now + 1
         /\ pc = "touch" => pc' = "hold" /\ UNCHANGED <<now, current_slide>>
         /\ pc = "for" => /\ pc' = "top"
                          /\ UNCHANGED <<now, idx, visited, lastSlide,
                                         current_slide, heap>>
         /\ pc = "top" => pc' = "stopped"]_vars

\* C13 witness: the loop has ended although the slide shown last was held
\* for less than its duration.
C13_Witness ==
    /\ pc = "stopped"
    /\ lastSlide.decision = "shown"
    /\ elapsed # FZero
    /\ FLt(FAdd(elapsed, FInt(1)), FInt(lastSlide.slide.duration))

(***************************************************************************)
(* Further claims about the collector, checked under SpecCollector.        *)
(***************************************************************************)
\* C14 (clear_cache forces a re-fetch): a get_data() call on an enabled
\* collector that is the first one after a clear_cache() invokes
\* _fetch_data, however recent the previous fetch is.
C14_ClearForcesFetch ==
    (lastCall.valid /\ coll.enabled /\ lastCall.clearedSince)
        => lastCall.fetched

\* C14 witness: a payload was fetched, the cache was cleared, and a call
\* less than 5 s after that fetch fetched again.
C14_Witness ==
    /\ lastCall.valid /\ lastCall.clearedSince /\ lastCall.fetched
    /\ lastCall.prevFetch.valid /\ ~lastCall.prevFetch.raised
    /\ Truthy(lastCall.prevFetch.value)
    /\ lastCall.start - lastCall.prevFetch.start < 10 * CacheTTL

(***************************************************************************)
(* Claims about configuration edits, checked under SpecEdit.               *)
(***************************************************************************)
\* The slides of a list, as a set.
SlideSet(list) == {list[i] : i \in DOMAIN list}

\* C15 (configuration re-read at every pass): the list a pass works on does
\* not change during the pass, whatever is saved meanwhile; the slides
\* visited are the first slides of that list; and the list of a pass that
\* starts holds the slides of the configuration as it is saved then.
C15_ConfigReadPerPass ==
    [][/\ passes' = passes => slides' = slides
       /\ (passes' # passes /\ passEnd' = "none")
              => /\ Len(slides') = Len(config)
                 /\ SlideSet(slides') = SlideSet(config)
       /\ \A i \in DOMAIN visited' :
              i <= Len(slides') /\ visited'[i] = slides'[i].id]_vars

\* C15 witness: the first pass showed slide 1 of the list saved then; the
\* second pass works on the list saved during the first, which has no
\* slide 1.
C15_Witness ==
    /\ passes = 2 /\ pc = "for" /\ passEnd = "none"
    /\ sinkFrame.slide = 1
    /\ Len(slides) = 2 /\ SlideSet(slides) = SlideSet(config)

\* C16 (concurrent collector use): at most one thread executes _fetch_data
\* of the collector at a time, and it holds the lock; a caller that gets the
\* lock less than 5 s after a fetch stored a payload (in particular a caller
\* that waited for the lock while that fetch ran) does not fetch and
\* returns the cached payload.
C16_FetchesSerialized ==
    /\ \A t1, t2 \in Threads :
           (tpc[t1] = "fetching" /\ tpc[t2] = "fetching") => t1 = t2
    /\ \A th \in Threads : tpc[th] = "fetching" => collLock = th
    /\ ( /\ lastCall.valid /\ coll.enabled
         /\ ~lastCall.cacheBefore.isNone
         /\ lastCall.cacheTimeBefore # NoTime
         /\ lastCall.start - lastCall.cacheTimeBefore < 10 * CacheTTL )
       => ~lastCall.fetched /\ lastCall.ret = lastCall.cacheBefore

\* C16 witness: a fetch that began with an empty cache ran for a while and
\* stored a payload; a caller that got the lock at the moment the fetch was
\* over returned that payload without fetching.
C16_Witness ==
    /\ lastCall.valid /\ ~lastCall.fetched
    /\ lastCall.prevFetch.valid
    /\ lastCall.prevFetch.start < lastCall.start
    /\ lastCall.start = lastCall.cacheTimeBefore
    /\ Truthy(lastCall.ret) /\ lastCall.ret = lastCall.prevFetch.value

(***************************************************************************)
(* Claims about the hold of a slide, checked under Spec.                   *)
(***************************************************************************)
\* C17 (refresh checkpoint): in a hold in which nothing has failed, after k
\* refreshes last_refresh is k * refresh_duration (to the tenth of a second:
\* the rounding error of the double additions is not counted).
C17_CheckpointAdvancesByRefreshDuration ==
    (pc \in {"hold", "sleep", "touch"} /\ faults = 0)
        => last_refresh.n
               = 10 * slides[idx].refresh_duration * Len(refreshLog)

\* C18 (a refresh never hides the slide): while a slide is held its display
\* decision stays the one taken before the hold, CurrentSlide is a record
\* of that slide, and a hold that ends while running is true has lasted the
\* slide's duration, whatever the refresh fetches returned.
C18_RefreshNeverHides ==
    /\ pc \in {"hold", "sleep", "touch"}
           => /\ lastSlide.decision = "shown"
              /\ lastSlide.idx = idx
              /\ current_slide # NoneRef
              /\ heap[current_slide].slide = slides[idx]
    /\ (pc = "for" /\ running /\ lastSlide.decision = "shown")
           => /\ idx = lastSlide.idx + 1
              /\ FGe(elapsed, FInt(lastSlide.slide.duration))

\* C18 witness: a slide that was shown with data was held to the end of its
\* duration although a refresh left it without data, and CurrentSlide is
\* still its record, now without data.
C18_Witness ==
    /\ pc = "for" /\ running /\ lastSlide.decision = "shown"
    /\ ~lastSlide.tempData.isNone
    /\ data.isNone
    /\ FGe(elapsed, FInt(lastSlide.slide.duration))
    /\ current_slide # NoneRef
    /\ heap[current_slide].slide = lastSlide.slide
    /\ heap[current_slide].data.isNone

(***************************************************************************)
(* Further claims about the readers, checked under SpecTouch.              *)
(***************************************************************************)
\* C19 (records are replaced, never modified): the record a reader took
\* under the lock is, in every field, timestamp included, as it was when
\* the reader took it.
C19_TakenRecordNeverModified ==
    rref # NoneRef => heap[rref] = rview.taken

(***************************************************************************)
(* Further claims about the hold of a slide, checked under Spec.           *)
(***************************************************************************)
\* C20 (liveness touch): whenever a held slide is at the while condition of
\* its hold, after a completed tick, the timestamp of CurrentSlide is at
\* most 10 ticks (one second) old, whether the tick refreshed or not and
\* whether a re-render failed or not.
C20_TimestampTouchedEverySecond ==
    (pc = "hold" /\ current_slide # NoneRef)
        => now - heap[current_slide].timestamp <= 10

\* C21 (render error during a refresh): a tick of the hold whose re-render
\* raised (a render that gave no frame) leaves CurrentSlide, the record it
\* refers to and the frame on the sink as they were, goes on with the while
\* condition of the same hold with the tick counted, and does not stop the
\* loop; a hold that ends while the loop runs has lasted its duration.
C21_RefreshRenderErrorIsolated ==
    [][/\ (pc = "sleep" /\ renders' = renders + 1 /\ frames' = frames)
            => /\ UNCHANGED <<current_slide, heap, sinkFrame, idx, running,
                              passEnd>>
               /\ pc' = "hold"
               /\ elapsed' = FAdd(elapsed, FTenth)
       /\ (pc = "hold" /\ pc' = "for" /\ running)
            => FGe(elapsed, FInt(slides[idx].duration))]_vars

\* A hold that went through a failed re-render, a later refresh that
\* succeeded, and ended after its full duration with the loop running.
C21_Witness ==
    /\ pc = "for" /\ running
    /\ lastSlide.decision = "shown" /\ idx = lastSlide.idx + 1
    /\ renders = frames + 1
    /\ Len(refreshLog) >= 2
    /\ current_slide # NoneRef
    /\ heap[current_slide].slide = lastSlide.slide
    /\ sinkFrame = heap[current_slide].image
    /\ FGe(elapsed, FInt(lastSlide.slide.duration))

(***************************************************************************)
(* Further claims about the passes, checked under SpecEdit.                *)
(***************************************************************************)
\* C22 (empty slide list): a pass that finds no slide sleeps 5 s (50 ticks)
\* and renders, publishes and shows nothing meanwhile; when the loop still
\* runs, the next thing it does is a new pass, which reads and sorts the
\* configuration as it is then and sleeps again if it is still empty.
C22_EmptyListSleepsAndRetries ==
    [][/\ pc = "sleep5"
            => /\ pc' \in {"sleep5", "top"}
               /\ UNCHANGED <<current_slide, heap, sinkFrame, image, renders,
                              frames, fetches>>
               /\ pc' = "top" => now' = now + 50 /\ passEnd' = "empty"
       /\ (pc = "top" /\ pc' = "sleep5") => slides' = <<>> /\ config = <<>>
       /\ (pc = "top" /\ passEnd = "empty" /\ running /\ pc' # "top")
            => /\ passes' = passes + 1
               /\ passEnd' = "none" => slides' = SortSlides(config)
               /\ pc' \in {"for", "sleep5", "backoff"}]_vars

\* The first pass found no slide, slept 5 s, and the second pass read a
\* configuration that has slides by then; nothing was shown before.
C22_Witness ==
    /\ passes = 2 /\ passEnd = "none" /\ pc = "for" /\ idx = 1
    /\ now = 50
    /\ Len(slides) > 0 /\ slides = SortSlides(config)
    /\ current_slide = NoneRef /\ sinkFrame = NoImage /\ frames = 0

(***************************************************************************)
(* Further claims about the display loop, checked under Spec.              *)
(***************************************************************************)
\* C23 (one fetch before the first render): from the moment a slide is
\* resolved until its first publish, and on until the first refresh of its
\* hold, the underlying fetch of its collector has been invoked at most
\* once, also when that fetch gave None and the slide is shown all the same.
C23_OneFetchBeforeFirstRender ==
    (lastSlide.valid /\ lastSlide.decision \in {"display", "shown"}
        /\ refreshLog = <<>>)
        => fetches <= 1

(***************************************************************************)
(* Claims about the weather collector, checked under SpecWeather.          *)
(***************************************************************************)
\* C24 (the TTL cache covers every read): a read of the collector made less
\* than 5 s after a read that fetched a payload, with no clear_cache()
\* between them, does not go to the network again, and no two threads are
\* inside a fetch of the same collector at the same time.
C24_CacheCoversEveryRead ==
    /\ (WithinTTLOfFetch /\ ~lastCall.prevFetch.value.isNone)
          => ~lastCall.fetched
    /\ \A t1, t2 \in Threads :
          (t1 # t2 /\ tpc[t1] # "idle") => tpc[t2] = "idle"

\* C25 (the loop never spins): a pass that went through its whole slide
\* list has held a slide or slept, so time has passed since it started;
\* stated for the first pass, which starts at time 0: when it is complete
\* the clock has moved.
C25_PassTakesTime ==
    (passes = 1 /\ pc = "top" /\ passEnd = "complete") => now > 0

\* C26 (refresh attempts are spaced): within one hold, two successive
\* refresh attempts are at least refresh_duration seconds (10 ticks each)
\* apart, also when the re-render of the earlier attempt raised.
C26_RefreshAttemptsSpaced ==
    pc \in {"hold", "sleep", "touch"}
        => \A i \in 1..(Len(refreshLog) - 1) :
              refreshLog[i + 1] - refreshLog[i]
                  >= 10 * slides[idx].refresh_duration

\* C27 (a slide passed over clears CurrentSlide): when the slide visited
\* last was passed over (unknown type, should_display false, or an error of
\* its initial render), CurrentSlide is None.
C27_PassedOverClearsCurrent ==
    (lastSlide.valid
        /\ lastSlide.decision \in {"unknown", "hidden", "render_failed"})
        => current_slide = NoneRef

\* C28 (the collector of a slide): for a slide of a registered type the
\* loop has a collector exactly when create_collector of its type returns
\* one for the slide's configuration.
C28_CollectorWhenTypeCreatesOne ==
    LastRegistered
        => (lastSlide.hasCollector <=> CreatesCollector(lastSlide.slide))

(***************************************************************************)
(* Claims about the dict get_data() returns, checked under SpecCaller.     *)
(***************************************************************************)
\* C29 (get_data never hands out its cache): the dict the latest get_data()
\* returned is not the object the cache is, and a cache that is still
\* fresh holds what the fetch that filled it returned.
C29_ReturnedIsNotTheCache ==
    /\ retObj # NoObj => retObj # cacheObj
    /\ (CacheFresh(coll, now) /\ lastFetch.valid /\ ~lastFetch.raised
          /\ lastFetch.start = coll.cache_time)
          => coll.cache = lastFetch.value

(***************************************************************************)
(* Claims about slides.json, checked under SpecFiles.                      *)
(***************************************************************************)
\* C30 (loads concurrent with saves): a get_slides_config() that is over
\* returned the configuration saved before or one of those saved by the
\* requests, whole, and slides.json never holds the defaults.
C30_LoadSeesCompleteSavedConfig ==
    /\ loaded \in {<<>>, SavedContent} \cup {Payload(t) : t \in Savers}
    /\ names.main # NoInode => inodes[names.main] # DefaultContent

====
